---- MODULE Spec2Model ----
(***************************************************************************)
(* A model of seagrass/prepare.py: return_features, create_training_data   *)
(* and create_prediction_features over small integer rasters.              *)
(*                                                                         *)
(* A raster plane is a sequence of rows, a band stack a sequence of        *)
(* planes. Python offsets are 0-based, TLA+ sequences 1-based: element k   *)
(* of a Python sequence is element k+1 of its model. A call that raises    *)
(* returns [tag |-> <exception name>]; a call that returns, returns        *)
(* [tag |-> "ok", value |-> ...].                                          *)
(***************************************************************************)
EXTENDS Integers, Sequences, FiniteSets

VARIABLES pc, op, s2_data, ground_truth_data, no_data_value, s2_bands,
          blurring, result

vars == <<pc, op, s2_data, ground_truth_data, no_data_value, s2_bands,
          blurring, result>>

(***************************************************************************)
(* Bounds of the inputs the callers draw.                                  *)
(***************************************************************************)
\* most pixels (rows * cols) of a plane
MaxPixels == 4
\* most bands of a stack
MaxBands == 2
\* longest explicit band selection
MaxSel == 2

\* an optional argument is None or holds one value
None == <<>>

Some(v) == <<v>>

\* no call is bound, no call has returned
NoCall == "none"

NoResult == [tag |-> "none"]

\* the no-data sentinel written in the ground truth rasters
NoData == -9999

(***************************************************************************)
(* numpy / scipy primitives the module uses.                               *)
(***************************************************************************)
Ok(v) == [tag |-> "ok", value |-> v]

Raise(e) == [tag |-> e]

IsOk(r) == r.tag = "ok"

\* len(data): the length of the first axis
len(a) == Len(a)

Rows(plane) == Len(plane)

Cols(plane) == Len(plane[1])

\* np.arange(n) as a list: [0, 1, ..., n-1]
arange(n) == [k \in 1..n |-> k - 1]

\* data[band] with an integer band: offsets -n..-1 count from the end,
\* anything outside -n..n-1 raises IndexError
InRange(data, band) == band >= -len(data) /\ band < len(data)

getitem(data, band) == IF band >= 0 THEN data[band + 1] ELSE data[len(data) + band + 1]

\* a.ravel(order='F'): the columns one after another
ravel_columns(plane) ==
    [k \in 1..(Rows(plane) * Cols(plane)) |->
        plane[((k - 1) % Rows(plane)) + 1][((k - 1) \div Rows(plane)) + 1]]

\* a.ravel() of a 2-D array: the rows one after another (C order)
RECURSIVE ravel(_)
ravel(plane) == IF plane = <<>> THEN <<>> ELSE Head(plane) \o ravel(Tail(plane))

\* np.vstack(list).T of a non-empty list of equally long 1-D arrays:
\* row i holds element i of every array, in list order
vstack_T(arrays) == [i \in 1..Len(arrays[1]) |-> [j \in 1..Len(arrays) |-> arrays[j][i]]]

\* a[m] with a 1-D boolean m over the first axis: the rows where m is true
RECURSIVE compress(_, _)
compress(a, m) ==
    IF a = <<>> THEN <<>>
    ELSE IF Head(m) THEN <<Head(a)>> \o compress(Tail(a), Tail(m))
    ELSE compress(Tail(a), Tail(m))

\* abs() of a number
abs(v) == IF v < 0 THEN -v ELSE v

\* the array itself, signs kept
signed_array(plane) == plane

\* abs() of a 2-D array, a new array
abs_array(plane) == [r \in 1..Rows(plane) |-> [c \in 1..Cols(plane) |-> abs(plane[r][c])]]

\* a != scalar, elementwise
not_equal(plane, v) == [r \in 1..Rows(plane) |-> [c \in 1..Cols(plane) |-> plane[r][c] # v]]

\* v.reshape(-1, 1): a column
reshape_column(v) == [k \in 1..Len(v) |-> <<v[k]>>]

(***************************************************************************)
(* scipy.ndimage.gaussian_filter(plane, 2.0): a separable filter, one pass *)
(* of gaussian_filter1d along the rows axis and one along the columns      *)
(* axis, mode 'reflect', kernel radius int(4.0 * 2.0 + 0.5) = 8. The       *)
(* rasters are integer arrays and the output takes the dtype of the input, *)
(* so every pass ends in an integer. The weights exp(-x^2 / 8) are in      *)
(* units of 1/10000 and normalised by their sum, as the library does.      *)
(***************************************************************************)
Radius == 8

Weight(x) ==
    CASE abs(x) = 0 -> 1995 [] abs(x) = 1 -> 1760 [] abs(x) = 2 -> 1210
      [] abs(x) = 3 -> 648 [] abs(x) = 4 -> 270 [] abs(x) = 5 -> 88
      [] abs(x) = 6 -> 22 [] abs(x) = 7 -> 4 [] abs(x) = 8 -> 1

RECURSIVE SumTaps(_, _)
SumTaps(f, x) == IF x > Radius THEN 0 ELSE f[x] + SumTaps(f, x + 1)

WeightSum == SumTaps([x \in -Radius..Radius |-> Weight(x)], -Radius)

\* mode 'reflect': (d c b a | a b c d | d c b a)
Reflect(i, n) ==
    LET m == (i + 2 * n * Radius) % (2 * n)
    IN IF m < n THEN m ELSE 2 * n - 1 - m

\* one pass over a line of n non-negative values, 0-based position i
Filter1d(line, i) ==
    SumTaps([x \in -Radius..Radius |-> Weight(x) * line[Reflect(i + x, Len(line)) + 1]], -Radius)
        \div WeightSum

gaussian_filter(plane) ==
    LET R == Rows(plane)
        C == Cols(plane)
        pass0 == [r \in 1..R |-> [c \in 1..C |->
                    Filter1d([k \in 1..R |-> plane[k][c]], r - 1)]]
    IN [r \in 1..R |-> [c \in 1..C |-> Filter1d(pass0[r], c - 1)]]

(***************************************************************************)
(* prepare.py                                                              *)
(***************************************************************************)
\* a default selection as long as a plane has rows
default_bands_rows(data) == arange(len(data[1]))

\* list(np.arange(len(data))): the default band selection
default_bands(data) == arange(len(data))

\* return_features with the blurred columns ahead of the unblurred ones
return_features_blurred_first(data, bands_arg, blur) ==
    LET bands == IF bands_arg = None THEN default_bands(data) ELSE bands_arg[1]
        bands_1D == [j \in 1..Len(bands) |-> ravel(getitem(data, bands[j]))]
        blurred_1D == [j \in 1..Len(bands) |-> ravel(gaussian_filter(getitem(data, bands[j])))]
        all_bands == IF blur THEN blurred_1D \o bands_1D ELSE bands_1D
    IN IF \E j \in 1..Len(bands) : ~InRange(data, bands[j]) THEN Raise("IndexError")
       ELSE IF all_bands = <<>> THEN Raise("ValueError")
       ELSE Ok(vstack_T(all_bands))

\* return_features with every offset taken modulo the number of bands
return_features_modulo(data, bands_arg, blur) ==
    LET bands == IF bands_arg = None THEN default_bands(data) ELSE bands_arg[1]
        bands_1D == [j \in 1..Len(bands) |-> ravel(data[(bands[j] % len(data)) + 1])]
        blurred_1D == [j \in 1..Len(bands) |->
                         ravel(gaussian_filter(data[(bands[j] % len(data)) + 1]))]
        all_bands == IF blur THEN bands_1D \o blurred_1D ELSE bands_1D
    IN IF all_bands = <<>> THEN Raise("ValueError")
       ELSE Ok(vstack_T(all_bands))

return_features(data, bands_arg, blur) ==
    LET bands == IF bands_arg = None THEN default_bands(data) ELSE bands_arg[1]
        bands_1D == [j \in 1..Len(bands) |-> ravel(getitem(data, bands[j]))]
        blurred_1D == [j \in 1..Len(bands) |-> ravel(gaussian_filter(getitem(data, bands[j])))]
        all_bands == IF blur THEN bands_1D \o blurred_1D ELSE bands_1D
    IN IF \E j \in 1..Len(bands) : ~InRange(data, bands[j]) THEN Raise("IndexError")
       ELSE IF all_bands = <<>> THEN Raise("ValueError")
       ELSE Ok(vstack_T(all_bands))

\* create_training_data with the labels read column by column
create_training_data_columns(data, ground_truth, no_data, bands_arg) ==
    LET bands == IF bands_arg = None THEN Some(default_bands(data)) ELSE bands_arg
        mask == not_equal(ground_truth, no_data)
        features == return_features(data, bands, FALSE)
        X == compress(features.value, ravel(mask))
        y == reshape_column(compress(ravel_columns(abs_array(ground_truth)),
                                     ravel_columns(mask)))
    IN IF ~IsOk(features) THEN features
       ELSE IF Len(ravel(mask)) # Len(features.value) THEN Raise("IndexError")
       ELSE Ok([X |-> X, y |-> y])

create_training_data(data, ground_truth, no_data, bands_arg) ==
    LET bands == IF bands_arg = None THEN Some(default_bands(data)) ELSE bands_arg
        mask == not_equal(ground_truth, no_data)
        features == return_features(data, bands, FALSE)
        X == compress(features.value, ravel(mask))
        y == reshape_column(compress(ravel(abs_array(ground_truth)), ravel(mask)))
    IN IF ~IsOk(features) THEN features
       ELSE IF Len(ravel(mask)) # Len(features.value) THEN Raise("IndexError")
       ELSE Ok([X |-> X, y |-> y])

\* create_prediction_features with the blurred columns switched on
create_prediction_features_blurred(data, bands_arg) ==
    LET bands == IF bands_arg = None THEN Some(default_bands(data)) ELSE bands_arg
    IN return_features(data, bands, TRUE)

create_prediction_features(data, bands_arg) ==
    LET bands == IF bands_arg = None THEN Some(default_bands(data)) ELSE bands_arg
    IN return_features(data, bands, FALSE)

(***************************************************************************)
(* The inputs of the callers.                                              *)
(***************************************************************************)
Shapes == {s \in (1..MaxPixels) \X (1..MaxPixels) : s[1] * s[2] <= MaxPixels}

\* a stack of n planes of shape s; no two of its pixels hold the same value
Stack(n, s) ==
    [b \in 1..n |-> [r \in 1..s[1] |-> [c \in 1..s[2] |->
        10 * ((b - 1) * s[1] * s[2] + (r - 1) * s[2] + (c - 1) + 1)]]]

Stacks == {Stack(n, s) : n \in 1..MaxBands, s \in Shapes}

\* the label of the pixel with flat offset k: signed, never a sentinel
Label(k) == IF k % 2 = 0 THEN -(k + 1) ELSE k + 1

\* ground truth rasters of shape s: every pixel holds NoData or its label
GroundTruths(s) ==
    {[r \in 1..s[1] |-> [c \in 1..s[2] |->
        IF (r - 1) * s[2] + (c - 1) \in nodata THEN NoData ELSE Label((r - 1) * s[2] + (c - 1))]]
     : nodata \in SUBSET (0..(s[1] * s[2] - 1))}

SeqsUpTo(S, n) == UNION {[1..m -> S] : m \in 0..n}

\* band offsets offered to a stack of n bands: every band, the last band
\* counted from the end, and one step past each end of the band axis
Offsets(n) == (0..n) \cup {-1, -(n + 1)}

\* band selections offered to a stack of n bands: omitted, or a list
Selections(n) == {None} \cup {Some(l) : l \in SeqsUpTo(Offsets(n), MaxSel)}

(***************************************************************************)
(* The state machine: a caller binds the arguments of one call (pc =       *)
(* "ready"), the function runs to its return or its exception (pc =        *)
(* "returned"), the caller drops the objects (pc = "idle").                *)
(***************************************************************************)
Init ==
    /\ pc = "idle"
    /\ op = NoCall
    /\ s2_data = None
    /\ ground_truth_data = None
    /\ no_data_value = None
    /\ s2_bands = None
    /\ blurring = FALSE
    /\ result = NoResult

CallReturnFeatures ==
    /\ pc = "idle"
    /\ pc' = "ready"
    /\ op' = "return_features"
    /\ s2_data' \in Stacks
    /\ s2_bands' \in Selections(len(s2_data'))
    /\ blurring' \in BOOLEAN
    /\ UNCHANGED <<ground_truth_data, no_data_value, result>>

CallCreateTrainingData ==
    /\ pc = "idle"
    /\ pc' = "ready"
    /\ op' = "create_training_data"
    /\ s2_data' \in Stacks
    /\ s2_bands' \in Selections(len(s2_data'))
    /\ \E s \in Shapes : ground_truth_data' \in GroundTruths(s)
    /\ no_data_value' = NoData
    /\ UNCHANGED <<blurring, result>>

CallCreatePredictionFeatures ==
    /\ pc = "idle"
    /\ pc' = "ready"
    /\ op' = "create_prediction_features"
    /\ s2_data' \in Stacks
    /\ s2_bands' \in Selections(len(s2_data'))
    /\ UNCHANGED <<ground_truth_data, no_data_value, blurring, result>>

ReturnFeatures ==
    /\ pc = "ready"
    /\ op = "return_features"
    /\ result' = return_features(s2_data, s2_bands, blurring)
    /\ pc' = "returned"
    /\ UNCHANGED <<op, s2_data, ground_truth_data, no_data_value, s2_bands, blurring>>

\* create_training_data taking the absolute values in place
CreateTrainingDataInPlace ==
    /\ pc = "ready"
    /\ op = "create_training_data"
    /\ result' = create_training_data(s2_data, ground_truth_data, no_data_value, s2_bands)
    /\ ground_truth_data' = abs_array(ground_truth_data)
    /\ pc' = "returned"
    /\ UNCHANGED <<op, s2_data, no_data_value, s2_bands, blurring>>

CreateTrainingData ==
    /\ pc = "ready"
    /\ op = "create_training_data"
    /\ result' = create_training_data(s2_data, ground_truth_data, no_data_value, s2_bands)
    /\ pc' = "returned"
    /\ UNCHANGED <<op, s2_data, ground_truth_data, no_data_value, s2_bands, blurring>>

CreatePredictionFeatures ==
    /\ pc = "ready"
    /\ op = "create_prediction_features"
    /\ result' = create_prediction_features(s2_data, s2_bands)
    /\ pc' = "returned"
    /\ UNCHANGED <<op, s2_data, ground_truth_data, no_data_value, s2_bands, blurring>>

Drop ==
    /\ pc = "returned"
    /\ pc' = "idle"
    /\ op' = NoCall
    /\ s2_data' = None
    /\ ground_truth_data' = None
    /\ no_data_value' = None
    /\ s2_bands' = None
    /\ blurring' = FALSE
    /\ result' = NoResult

Next ==
    \/ CallReturnFeatures
    \/ CallCreateTrainingData
    \/ CallCreatePredictionFeatures
    \/ ReturnFeatures
    \/ CreateTrainingData
    \/ CreatePredictionFeatures
    \/ Drop

Spec == Init /\ [][Next]_vars

(***************************************************************************)
(* Vocabulary of the properties.                                           *)
(***************************************************************************)
Returned(f) == pc = "returned" /\ op = f

\* the band selection the caller passed, when one was passed
Selection == s2_bands[1]

BandCount == len(s2_data)

PlaneShape == <<Rows(s2_data[1]), Cols(s2_data[1])>>

TruthShape == <<Rows(ground_truth_data), Cols(ground_truth_data)>>

Pixels == PlaneShape[1] * PlaneShape[2]

\* the value of band offset b at the pixel with flat (row-major) offset i
Pixel(b, i) == s2_data[b + 1][(i \div PlaneShape[2]) + 1][(i % PlaneShape[2]) + 1]

\* the ground truth at the pixel with flat (row-major) offset i
Truth(i) == ground_truth_data[(i \div TruthShape[2]) + 1][(i % TruthShape[2]) + 1]

\* flat offsets of the pixels whose ground truth is not the sentinel
ValidPixels == {i \in 0..(TruthShape[1] * TruthShape[2] - 1) : Truth(i) # no_data_value}

\* the position (from 1) of valid pixel i among the valid pixels
Rank(i) == Cardinality({j \in ValidPixels : j <= i})

AllNonNegative == \A j \in 1..Len(Selection) : Selection[j] \in 0..(BandCount - 1)

AllIndexable == \A j \in 1..Len(Selection) : Selection[j] \in (-BandCount)..(BandCount - 1)

\* the selection the call works with: the one passed, or every band in order
Resolved == IF s2_bands = None THEN [j \in 1..BandCount |-> j - 1] ELSE Selection

(***************************************************************************)
(* C3: for a non-empty selection B of offsets 0..N-1 and blurring off,     *)
(* return_features returns R*C rows of Len(B) entries, and entry j of row  *)
(* i is band B[j] at row i div C, column i mod C.                          *)
(***************************************************************************)
C3_FeatureLayout ==
    (/\ Returned("return_features")
     /\ ~blurring
     /\ s2_bands # None
     /\ Selection # <<>>
     /\ AllNonNegative)
    => /\ IsOk(result)
       /\ Len(result.value) = Pixels
       /\ \A i \in 0..(Pixels - 1) :
            /\ Len(result.value[i + 1]) = Len(Selection)
            /\ \A j \in 1..Len(Selection) :
                 result.value[i + 1][j] = Pixel(Selection[j], i)

\* a 2x2 stack, the selection [1, 1] or [1, 0]: repeated or reordered bands
C3_Witness ==
    /\ Returned("return_features")
    /\ ~blurring
    /\ PlaneShape = <<2, 2>>
    /\ s2_bands \in {Some(<<1, 1>>), Some(<<1, 0>>)}
    /\ IsOk(result)

(***************************************************************************)
(* C1: when the ground truth has the shape of the planes, row k of X is    *)
(* row i of the unmasked feature matrix and entry k of y is |G[r,c]|,      *)
(* where (r,c) is the k-th pixel in row-major order with G[r,c] # nd and   *)
(* i = r * cols + c.                                                       *)
(***************************************************************************)
C1_RowsAligned ==
    (/\ Returned("create_training_data")
     /\ TruthShape = PlaneShape
     /\ IsOk(result))
    => LET unmasked == return_features(s2_data, Some(Resolved), FALSE).value
       IN \A i \in ValidPixels :
            /\ Rank(i) <= Len(result.value.X)
            /\ Rank(i) <= Len(result.value.y)
            /\ result.value.X[Rank(i)] = unmasked[i + 1]
            /\ result.value.y[Rank(i)] = <<abs(Truth(i))>>

\* a 2x2 ground truth whose valid pixels are the offsets 1 and 2: they are
\* met in another order by a column-major traversal
C1_Witness ==
    /\ Returned("create_training_data")
    /\ TruthShape = <<2, 2>>
    /\ PlaneShape = <<2, 2>>
    /\ ValidPixels = {1, 2}
    /\ s2_bands = Some(<<1, 0>>)
    /\ IsOk(result)
    /\ result.value.y = <<<<2>>, <<3>>>>

(***************************************************************************)
(* C2: with the band selection omitted and a ground truth of the shape of  *)
(* the planes, create_training_data returns X and y with as many rows as   *)
(* the ground truth has cells other than nd, and no entry of y is negative.*)
(***************************************************************************)
C2_MaskAlignment ==
    (/\ Returned("create_training_data")
     /\ s2_bands = None
     /\ TruthShape = PlaneShape)
    => /\ IsOk(result)
       /\ Len(result.value.X) = Cardinality(ValidPixels)
       /\ Len(result.value.y) = Cardinality(ValidPixels)
       /\ \A k \in 1..Len(result.value.y) : result.value.y[k][1] >= 0

\* a negative label among the valid pixels and a masked pixel beside it
C2_Witness ==
    /\ Returned("create_training_data")
    /\ s2_bands = None
    /\ TruthShape = PlaneShape
    /\ \E i \in ValidPixels : Truth(i) < 0
    /\ Cardinality(ValidPixels) < Pixels
    /\ IsOk(result)

(***************************************************************************)
(* C4 as claimed: a selection with an offset outside 0..N-1 makes          *)
(* return_features raise IndexError.                                       *)
(***************************************************************************)
C4_OutsideNonNegativeRaises ==
    (/\ Returned("return_features")
     /\ s2_bands # None
     /\ ~AllNonNegative)
    => result.tag = "IndexError"

(***************************************************************************)
(* C4 amended: a selection with an offset outside -N..N-1 makes            *)
(* return_features raise IndexError; an offset b in -N..-1 is no error and *)
(* selects band N + b.                                                     *)
(***************************************************************************)
C4_OutsideIndexableRaises ==
    /\ (/\ Returned("return_features")
        /\ s2_bands # None
        /\ ~AllIndexable)
       => result.tag = "IndexError"
    /\ (/\ Returned("return_features")
        /\ s2_bands # None
        /\ Selection # <<>>
        /\ AllIndexable)
       => /\ IsOk(result)
          /\ \A i \in 0..(Pixels - 1) : \A j \in 1..Len(Selection) :
               result.value[i + 1][j] =
                 Pixel(IF Selection[j] < 0 THEN BandCount + Selection[j] ELSE Selection[j], i)

\* the offset N (one past the last band) after a valid offset
C4_Witness ==
    /\ Returned("return_features")
    /\ BandCount = 2
    /\ s2_bands = Some(<<0, 2>>)
    /\ result.tag = "IndexError"

(***************************************************************************)
(* C5 as claimed: a ground truth whose shape differs from the shape of the *)
(* planes makes create_training_data fail, and no (X, y) is returned.      *)
(***************************************************************************)
C5_ShapeMismatchFails ==
    (/\ Returned("create_training_data")
     /\ TruthShape # PlaneShape)
    => ~IsOk(result)

(***************************************************************************)
(* C6 as claimed: an empty selection makes return_features return, with no *)
(* error, a matrix of R*C rows and no column.                              *)
(***************************************************************************)
C6_EmptySelectionReturns ==
    (/\ Returned("return_features")
     /\ s2_bands = Some(<<>>))
    => /\ IsOk(result)
       /\ Len(result.value) = Pixels
       /\ \A i \in 1..Pixels : result.value[i] = <<>>

(***************************************************************************)
(* C7: for a non-empty selection B of offsets 0..N-1 and blurring on,      *)
(* return_features returns R*C rows of 2*Len(B) entries; the first Len(B)  *)
(* entries of every row are the row of the unblurred matrix, and entry     *)
(* Len(B)+j of row i is pixel i of the smoothed plane of band B[j].        *)
(***************************************************************************)
C7_BlurredColumnsFollow ==
    (/\ Returned("return_features")
     /\ blurring
     /\ s2_bands # None
     /\ Selection # <<>>
     /\ AllNonNegative)
    => LET n == Len(Selection)
           C == PlaneShape[2]
       IN /\ IsOk(result)
          /\ Len(result.value) = Pixels
          /\ \A i \in 0..(Pixels - 1) :
               /\ Len(result.value[i + 1]) = 2 * n
               /\ \A j \in 1..n :
                    /\ result.value[i + 1][j] = Pixel(Selection[j], i)
                    /\ result.value[i + 1][n + j] =
                         gaussian_filter(s2_data[Selection[j] + 1])[(i \div C) + 1][(i % C) + 1]

\* two bands of a 2x2 stack in reverse order, and smoothing changes a pixel
C7_Witness ==
    /\ Returned("return_features")
    /\ blurring
    /\ PlaneShape = <<2, 2>>
    /\ s2_bands = Some(<<1, 0>>)
    /\ IsOk(result)
    /\ result.value[1][3] # result.value[1][1]
    /\ result.value[1][3] # result.value[1][4]

(***************************************************************************)
(* C8: a call with the band selection omitted returns what the same call   *)
(* returns with the selection [0, 1, ..., N-1], N the number of bands of   *)
(* the stack of that call; so for return_features with either value of     *)
(* blurring, for create_training_data and for create_prediction_features.  *)
(***************************************************************************)
C8_DefaultSelection ==
    (pc = "returned" /\ s2_bands = None)
    => LET every == Some([j \in 1..BandCount |-> j - 1])
       IN /\ op = "return_features"
             => result = return_features(s2_data, every, blurring)
          /\ op = "create_training_data"
             => result = create_training_data(s2_data, ground_truth_data, no_data_value, every)
          /\ op = "create_prediction_features"
             => result = create_prediction_features(s2_data, every)

\* the default of a 2-band stack with more than two rows, blurring on
C8_Witness ==
    /\ Returned("return_features")
    /\ s2_bands = None
    /\ blurring
    /\ BandCount = 2
    /\ PlaneShape[1] > 2
    /\ IsOk(result)
    /\ Len(result.value[1]) = 4

C10_InputsUnchanged ==
    [][pc = "ready" =>
        /\ s2_data' = s2_data
        /\ ground_truth_data' = ground_truth_data
        /\ no_data_value' = no_data_value
        /\ s2_bands' = s2_bands]_vars

\* a negative label is returned as its absolute value and is still negative
\* in the ground truth
C10_Witness ==
    /\ Returned("create_training_data")
    /\ IsOk(result)
    /\ 0 \in ValidPixels
    /\ Truth(0) < 0
    /\ result.value.y[1] = <<-Truth(0)>>

====
